---- MODULE Spec2Model ----
(***************************************************************************)
(* Model of sprillex/food_scan_server.                                     *)
(*                                                                         *)
(*   server.py    the FastAPI application: GET /product/{upc}              *)
(*                (check_product) and POST /analyze (analyze_evidence),    *)
(*                with its own products table (flat item shape).           *)
(*   database.py  the storage module exercised by tests/test_nutrition.py: *)
(*                get_product_from_db / save_product_to_db over a products *)
(*                table with the nested item shape.                        *)
(*                                                                         *)
(* Both handlers of server.py are "async def" bodies without a single      *)
(* await, so a handler runs on the event loop from its first statement to  *)
(* its return with no other handler in between; requests that arrive       *)
(* meanwhile wait in the loop's queue.                                     *)
(***************************************************************************)
EXTENDS Integers, Sequences, FiniteSets, TLC

\* ------------------------------------------------------------------ bounds
MaxPending == 1     \* requests waiting for the event loop
ScriptLen  == 3     \* answers the provider has ready for one request
MaxClock   == 1     \* ticks of the wall clock (CURRENT_TIMESTAMP)

\* ------------------------------------------------------- JSON / Python values
\* A value is a tagged tuple; a dict keeps its insertion order as a sequence
\* of <<key, value>> pairs.
JNull      == <<"null">>
JStr(s)    == <<"str", s>>
JNum(n)    == <<"num", n>>
JList(es)  == <<"list", es>>
JDict(kvs) == <<"dict", kvs>>

IsDict(v)   == v[1] = "dict"
IsScalar(v) == v[1] \in {"null", "str", "num"}

\* Python truthiness ("if not x").
Truthy(v) ==
  CASE v[1] = "null" -> FALSE
    [] v[1] = "str"  -> v[2] # ""
    [] v[1] = "num"  -> v[2] # 0
    [] v[1] = "list" -> Len(v[2]) > 0
    [] v[1] = "dict" -> Len(v[2]) > 0

HasKey(d, k) == \E i \in 1..Len(d[2]) : d[2][i][1] = k

\* dict.get(k, default)
DictGet(d, k, default) ==
  IF HasKey(d, k)
  THEN d[2][CHOOSE i \in 1..Len(d[2]) : d[2][i][1] = k][2]
  ELSE default

\* str(x) for the scalars a barcode can be.
PyStr(v) ==
  CASE v[1] = "str"  -> v[2]
    [] v[1] = "num"  -> ToString(v[2])
    [] v[1] = "null" -> "None"

NoneVal == <<"None">>       \* Python's None as a function result

\* ------------------------------------------------------------- reply text
\* A text is a sequence of characters.  The characters of a fence marker and
\* white space are modelled one by one; a run of other characters (a JSON
\* document, or prose) is one token naming that run.
Whitespace == {" ", "\n"}
Backtick   == "BACKTICK"    \* the character U+0060
FenceOpen  == <<Backtick, Backtick, Backtick, "j", "s", "o", "n">>
FenceClose == <<Backtick, Backtick, Backtick>>

\* str.replace(old, ""): remove the non-overlapping occurrences, left to right.
RECURSIVE str_replace(_, _)
str_replace(s, old) ==
  IF Len(s) < Len(old) THEN s
  ELSE IF SubSeq(s, 1, Len(old)) = old
       THEN str_replace(SubSeq(s, Len(old) + 1, Len(s)), old)
       ELSE <<Head(s)>> \o str_replace(Tail(s), old)

RECURSIVE str_lstrip(_)
str_lstrip(s) ==
  IF s # <<>> /\ Head(s) \in Whitespace THEN str_lstrip(Tail(s)) ELSE s

RECURSIVE str_rstrip(_)
str_rstrip(s) ==
  IF s # <<>> /\ s[Len(s)] \in Whitespace
  THEN str_rstrip(SubSeq(s, 1, Len(s) - 1)) ELSE s

str_strip(s) == str_rstrip(str_lstrip(s))

\* Variant: only the opening marker is removed.
clean_json_of_opening_only(result_text) ==
  str_strip(str_replace(result_text, FenceOpen))

\* server.py line 169
clean_json_of(result_text) ==
  str_strip(str_replace(str_replace(result_text, FenceOpen), FenceClose))

\* ------------------------------------------------------ the JSON documents
FlatItemA == JDict(<< <<"upc", JStr("111")>>, <<"name", JStr("Oat Bar")>>,
                      <<"calories", JNum(100)>>, <<"fat", JNum(5)>>,
                      <<"fiber", JNum(3)>>, <<"brand_name", JStr("Acme")>> >>)
FlatItemB == JDict(<< <<"upc", JStr("111")>>, <<"calories", JNum(200)>>,
                      <<"protein", JNum(7)>> >>)
FlatItemC == JDict(<< <<"upc", JNum(222)>>, <<"name", JNum(7)>>,
                      <<"calories", JStr("50")>> >>)
ItemNoUpc   == JDict(<< <<"name", JStr("Oat Bar")>>, <<"calories", JNum(100)>> >>)
ItemNullUpc == JDict(<< <<"upc", JNull>>, <<"calories", JNum(100)>> >>)
ItemStrNull == JDict(<< <<"upc", JStr("null")>>, <<"calories", JNum(100)>> >>)
NestedItemA ==
  JDict(<< <<"metadata", JDict(<< <<"name", JStr("Oat Bar")>>,
                                  <<"brand", JStr("Acme")>>,
                                  <<"upc", JStr("111")>>,
                                  <<"srv_per_cont", JNum(2)>> >>)>>,
           <<"macros", JDict(<< <<"calories", JNum(100)>>,
                                <<"fat_g", JNum(5)>>,
                                <<"fiber_g", JNum(3)>> >>)>>,
           <<"micros", JDict(<< <<"iron_mg", JNum(1)>> >>)>>,
           <<"serving_info", JDict(<< <<"size", JStr("1 bar")>> >>)>>,
           <<"analysis", JDict(<< <<"score_color", JStr("Green")>> >>)>> >>)
ItemBadParam == JDict(<< <<"upc", JStr("111")>>,
                         <<"calories", JDict(<< <<"value", JNum(100)>> >>)>> >>)
NestedItemB ==
  JDict(<< <<"metadata", JDict(<< <<"upc", JStr("111")>> >>)>>,
           <<"macros", JDict(<< <<"calories", JNum(200)>>,
                                <<"protein_g", JNum(7)>> >>)>> >>)

Analysis(label, item) ==
  JDict(<< <<"variables", JDict(<< <<label, item>> >>)>> >>)

\* A reply that describes two products, in this order.
TwoEntries(item1, item2) ==
  JDict(<< <<"variables", JDict(<< <<"Oats", item1>>, <<"Rice", item2>> >>)>> >>)

\* The text runs that are JSON documents, with the value json.loads gives.
JsonDoc ==
  [ docFlatA   |-> Analysis("Oats", FlatItemA),
    docFlatB   |-> Analysis("Oats", FlatItemB),
    docFlatC   |-> Analysis("Rice", FlatItemC),
    docNoUpc   |-> Analysis("Oats", ItemNoUpc),
    docNullUpc |-> Analysis("Oats", ItemNullUpc),
    docStrNull |-> Analysis("Oats", ItemStrNull),
    docNestedA |-> Analysis("Oats", NestedItemA),
    docNestedB |-> Analysis("Oats", NestedItemB),
    docNoVars  |-> JDict(<<>>),
    docBadParam |-> Analysis("Oats", ItemBadParam),
    docList    |-> JList(<<JNum(1)>>),
    docTwoLater |-> TwoEntries(ItemNoUpc, FlatItemC),
    docTwoBoth  |-> TwoEntries(FlatItemA, FlatItemC) ]
ProseRuns == {"prose"}
TextRuns  == DOMAIN JsonDoc \cup ProseRuns

JSONDecodeError == <<"JSONDecodeError">>

\* json.loads on the texts above: a text is a JSON document exactly when it
\* is one run that names a document.
json_loads(text) ==
  IF Len(text) = 1 /\ text[1] \in DOMAIN JsonDoc
  THEN JsonDoc[text[1]]
  ELSE JSONDecodeError

\* What the model can reply: a run bare, or between a "```json" line and a
\* "```" line (tests/test_retry_logic.py line 30).
Bare(run)   == <<run>>
Fenced(run) == FenceOpen \o <<"\n", run, "\n">> \o FenceClose
ReplyRuns   == TextRuns \ {"docNestedB"}
Replies     == {Bare(run) : run \in ReplyRuns} \cup {Fenced(run) : run \in ReplyRuns}

\* ------------------------------------------------------------ the store
\* SQLite column affinity: a TEXT column stores a number as its text, an
\* INTEGER or REAL column stores a text that is a numeric literal as the number.
NumeralValue == ("50" :> 50) @@ ("111" :> 111) @@ ("222" :> 222)
TextAffinity(v) == IF v[1] = "num" THEN JStr(ToString(v[2])) ELSE v
NumAffinity(v) ==
  IF v[1] = "str" /\ v[2] \in DOMAIN NumeralValue
  THEN JNum(NumeralValue[v[2]]) ELSE v

\* Variants of the INSERT: OR IGNORE keeps the row that is there; a table
\* without the primary key keeps both.
InsertOrIgnore(table, row) ==
  IF \E r \in table : r.upc = row.upc THEN table ELSE table \cup {row}
InsertKeepingOld(table, row) == table \cup {row}
\* More variants: the key is inserted and the other columns are left for a
\* later statement; the table is emptied before the row is inserted.
InsertKeyOnly(table, row) ==
  {r \in table : r.upc # row.upc}
    \cup {[c \in DOMAIN row |-> IF c = "upc" THEN row[c] ELSE JNull]}
InsertReplacingTable(table, row) == {row}

\* INSERT OR REPLACE on a table whose primary key is upc: the rows that
\* conflict on the key are deleted, then the row is inserted.
InsertOrReplace(table, row) == {r \in table : r.upc # row.upc} \cup {row}

\* SELECT * FROM products WHERE upc = ?, fetchone()
SelectByUpc(table, upc) == {r \in table : r.upc = JStr(upc)}

\* dict(row): the columns in the order of CREATE TABLE (server.py lines 38-49)
ProductsColumns ==
  <<"upc", "item_name", "calories", "fat_g", "carbs_g", "protein_g",
    "fiber_g", "sodium_mg", "brand_name", "last_updated">>
RowDict(row, columns) ==
  JDict([i \in 1..Len(columns) |-> <<columns[i], row[columns[i]]>>])

\* server.py: get_product_from_db
get_product_from_db(upc, table) ==
  IF upc = "" THEN NoneVal
  ELSE LET rows == SelectByUpc(table, upc)
       IN IF rows = {} THEN NoneVal
          ELSE RowDict(CHOOSE r \in rows : TRUE, ProductsColumns)

\* The parameter tuple of the INSERT of server.py (lines 98-108).
insert_params(upc, first_key, item_data) ==
  [ upc        |-> JStr(PyStr(upc)),
    item_name  |-> DictGet(item_data, "name", JStr(first_key)),
    calories   |-> DictGet(item_data, "calories", JNum(0)),
    fat_g      |-> DictGet(item_data, "fat", JNum(0)),
    carbs_g    |-> DictGet(item_data, "carbohydrates", JNum(0)),
    protein_g  |-> DictGet(item_data, "protein", JNum(0)),
    fiber_g    |-> DictGet(item_data, "fiber", JNum(0)),
    sodium_mg  |-> DictGet(item_data, "sodium", JNum(0)),
    brand_name |-> DictGet(item_data, "brand_name", JStr("Unknown")) ]

\* The row the INSERT stores: each parameter under its column's affinity, and
\* last_updated from its DEFAULT CURRENT_TIMESTAMP.
products_row(p, clock) ==
  [ upc          |-> TextAffinity(p.upc),
    item_name    |-> TextAffinity(p.item_name),
    calories     |-> NumAffinity(p.calories),
    fat_g        |-> NumAffinity(p.fat_g),
    carbs_g      |-> NumAffinity(p.carbs_g),
    protein_g    |-> NumAffinity(p.protein_g),
    fiber_g      |-> NumAffinity(p.fiber_g),
    sodium_mg    |-> NumAffinity(p.sodium_mg),
    brand_name   |-> TextAffinity(p.brand_name),
    last_updated |-> JNum(clock) ]

\* Variant: only "not upc".
no_upc_falsy_only(upc) == ~Truthy(upc)

\* server.py line 85, database.py lines 74 and 78: "not upc or upc == 'null'"
no_upc(upc) == ~Truthy(upc) \/ upc = JStr("null")

\* sqlite3 binds None, numbers and text; any other parameter raises.
Bindable(p) == \A c \in DOMAIN p : IsScalar(p[c])

\* Variant: the exception leaves the function.
save_failed_raising == [did |-> "raised"]

\* server.py lines 111-112, database.py lines 120-121: an exception inside
\* save_product_to_db is logged and swallowed.
save_failed == [did |-> "failed"]

\* Variant: the first entry that carries a barcode, if there is one.
first_entry_with_upc(vars_block) ==
  LET entries == vars_block[2]
      with_upc == {i \in 1..Len(entries) :
                     /\ IsDict(entries[i][2])
                     /\ ~no_upc(DictGet(entries[i][2], "upc", JNull))}
  IN IF with_upc = {} THEN entries[1]
     ELSE entries[CHOOSE i \in with_upc : \A j \in with_upc : i <= j]

\* server.py lines 79-80, database.py lines 63-64: next(iter(vars_block)) is
\* the first key in insertion order; the entry is that key with its value.
first_entry(vars_block) == vars_block[2][1]

\* server.py: save_product_to_db.  The result says what the call did:
\* "saved" with the row it committed, "skipped" when it returned early, or
\* "failed" when the except clause of line 111 swallowed an exception.
save_product_to_db(data, clock, db_ok) ==
  IF ~IsDict(data) THEN save_failed
  ELSE LET vars_block == DictGet(data, "variables", JDict(<<>>)) IN
    IF ~Truthy(vars_block) THEN [did |-> "skipped"]
    ELSE IF ~IsDict(vars_block) THEN save_failed
    ELSE LET first_key == first_entry(vars_block)[1]
             item_data == first_entry(vars_block)[2]
         IN
      IF ~IsDict(item_data) THEN save_failed
      ELSE LET upc == DictGet(item_data, "upc", JNull) IN
        IF no_upc(upc) THEN [did |-> "skipped"]
        ELSE LET p == insert_params(upc, first_key, item_data) IN
          IF ~db_ok \/ ~Bindable(p) THEN save_failed
          ELSE [did |-> "saved", row |-> products_row(p, clock)]

\* ------------------------------------------------------------ database.py
DatabaseColumns ==
  <<"upc", "item_name", "brand_name", "srv_per_cont", "calories", "fat_g",
    "cholesterol_mg", "sodium_mg", "carbs_g", "fiber_g", "total_sugars_g",
    "added_sugars_g", "protein_g", "vit_d_mcg", "calcium_mg", "iron_mg",
    "potassium_mg", "serving_size", "score_color", "health_insight",
    "pairing_tip">>
DatabaseTextColumns ==
  {"upc", "item_name", "brand_name", "serving_size", "score_color",
   "health_insight", "pairing_tip"}

\* database.py: get_product_from_db
database_get_product_from_db(upc, table) ==
  IF upc = "" THEN NoneVal
  ELSE LET rows == SelectByUpc(table, upc)
       IN IF rows = {} THEN NoneVal
          ELSE RowDict(CHOOSE r \in rows : TRUE, DatabaseColumns)

\* The parameter tuple of the INSERT of database.py (lines 93-116); dict.get
\* without a default gives None.
database_insert_params(upc, first_key, metadata, macros, micros, serving_info, analysis) ==
  [ upc            |-> JStr(PyStr(upc)),
    item_name      |-> DictGet(metadata, "name", JStr(first_key)),
    brand_name     |-> DictGet(metadata, "brand", JNull),
    srv_per_cont   |-> DictGet(metadata, "srv_per_cont", JNull),
    calories       |-> DictGet(macros, "calories", JNull),
    fat_g          |-> DictGet(macros, "fat_g", JNull),
    cholesterol_mg |-> DictGet(macros, "cholesterol_mg", JNull),
    sodium_mg      |-> DictGet(macros, "sodium_mg", JNull),
    carbs_g        |-> DictGet(macros, "carbs_g", JNull),
    fiber_g        |-> DictGet(macros, "fiber_g", JNull),
    total_sugars_g |-> DictGet(macros, "total_sugars_g", JNull),
    added_sugars_g |-> DictGet(macros, "added_sugars_g", JNull),
    protein_g      |-> DictGet(macros, "protein_g", JNull),
    vit_d_mcg      |-> DictGet(micros, "vit_d_mcg", JNull),
    calcium_mg     |-> DictGet(micros, "calcium_mg", JNull),
    iron_mg        |-> DictGet(micros, "iron_mg", JNull),
    potassium_mg   |-> DictGet(micros, "potassium_mg", JNull),
    serving_size   |-> DictGet(serving_info, "size", JNull),
    score_color    |-> DictGet(analysis, "score_color", JNull),
    health_insight |-> DictGet(analysis, "health_insight", JNull),
    pairing_tip    |-> DictGet(analysis, "pairing_tip", JNull) ]

database_row(p) ==
  [c \in DOMAIN p |->
     IF c \in DatabaseTextColumns THEN TextAffinity(p[c]) ELSE NumAffinity(p[c])]

\* database.py: save_product_to_db, with the same three results as above.
database_save_product_to_db(data, db_ok) ==
  IF ~IsDict(data) THEN save_failed
  ELSE LET vars_block == DictGet(data, "variables", JDict(<<>>)) IN
    IF ~Truthy(vars_block) THEN [did |-> "skipped"]
    ELSE IF ~IsDict(vars_block) THEN save_failed
    ELSE LET first_key == first_entry(vars_block)[1]
             item_data == first_entry(vars_block)[2]
         IN
      IF ~IsDict(item_data) THEN save_failed
      ELSE LET metadata     == DictGet(item_data, "metadata", JDict(<<>>))
               macros       == DictGet(item_data, "macros", JDict(<<>>))
               micros       == DictGet(item_data, "micros", JDict(<<>>))
               serving_info == DictGet(item_data, "serving_info", JDict(<<>>))
               analysis     == DictGet(item_data, "analysis", JDict(<<>>))
           IN
        IF ~IsDict(metadata) THEN save_failed
        ELSE LET upc1 == DictGet(metadata, "upc", JNull)
                 upc  == IF no_upc(upc1)
                         THEN DictGet(item_data, "upc", JNull) ELSE upc1
             IN
          IF no_upc(upc) THEN [did |-> "skipped"]
          ELSE IF \E g \in {macros, micros, serving_info, analysis} : ~IsDict(g)
               THEN save_failed
          ELSE LET p == database_insert_params(upc, first_key, metadata, macros,
                                               micros, serving_info, analysis)
               IN IF ~db_ok \/ ~Bindable(p) THEN save_failed
                  ELSE [did |-> "saved", row |-> database_row(p)]

\* ------------------------------------------------------------------ state
VARIABLES
  queue,         \* the operations of the requests that wait for the event loop
  pc,            \* where the running handler is: "idle" when none runs
  cur,           \* the request of the running (or last) handler
  script,        \* the provider's answers to this request's generate_content calls
  calls,         \* generate_content calls this request has made
  inflight,      \* generate_content calls of this request not yet returned
  waits,         \* the sleeps of this request, in seconds, in order
  result_text,   \* response.text of this request (line 166), <<>> before it
  imageSaved,    \* this request's images/scan_<id>/evidence.jpg was written
  learned,       \* what this request's save_product_to_db call did ("none"
                 \* before the call)
  products,      \* the products table of server.py
  store_before,  \* the products table when the handler started
  persisted,     \* per barcode, the row of the last committed INSERT (if any)
  now,           \* the wall clock
  resp,          \* the response to the request of cur (none while it runs)
  db_products,   \* the products table of database.py
  db_persisted,  \* per barcode, the row of its last committed INSERT (if any)
  call,          \* the last direct call of a storage function; for a save,
                 \* what its log line says it did and the rows it replaced
  ret            \* what that call returned

vars == <<queue, pc, cur, script, calls, inflight, waits, result_text,
          imageSaved, learned, products, store_before, persisted, now, resp,
          db_products, db_persisted, call, ret>>
storeVars  == <<db_products, db_persisted, call, ret>>

Barcodes == {"111", "222", "999"}
Uploads  == {"image", "not_image"}
Operations == {"lookup", "analyze"}

\* How the provider can answer one generate_content call: with its rate-limit
\* error (429), with another error, with a reply that is a JSON document
\* (possibly fenced), or with a reply that is not.
Answers == {"rate_limit", "other_error", "json_reply", "text_reply"}
\* The scripts: the provider rate-limits the first calls of the request, then
\* gives its final answer (tests/test_retry_logic.py lines 32 and 61).
Scripts ==
  { [i \in 1..n |-> IF i < n THEN "rate_limit" ELSE a] :
      n \in 1..ScriptLen, a \in Answers }

\* The provider repeats its last answer if asked more often than scripted.
AnswerTo(n) == script[IF n <= Len(script) THEN n ELSE Len(script)]

RepliesOf(answer) ==
  IF answer = "json_reply"
  THEN {t \in Replies : json_loads(clean_json_of(t)) # JSONDecodeError}
  ELSE {t \in Replies : json_loads(clean_json_of(t)) = JSONDecodeError}

\* str(e) of the exception an answer raises
ErrorText(answer) ==
  IF answer = "rate_limit" THEN "429 RESOURCE_EXHAUSTED" ELSE "500 INTERNAL"

\* A response is its HTTP status with the keys of its JSON body.  An exception
\* that leaves a handler is answered by the framework with a bare 500.
NoResponse == [http |-> 0]
Unhandled  == [http |-> 500]
NoRequest  == [op |-> "none", arg |-> "none"]

Init ==
  /\ queue = <<>>
  /\ pc = "idle"
  /\ cur = NoRequest
  /\ script = <<>>
  /\ calls = 0
  /\ inflight = 0
  /\ waits = <<>>
  /\ result_text = <<>>
  /\ imageSaved = FALSE
  /\ learned = "none"
  /\ products = {}
  /\ store_before = {}
  /\ persisted = [b \in Barcodes |-> {}]
  /\ now = 0
  /\ resp = NoResponse
  /\ db_products = {}
  /\ db_persisted = [b \in Barcodes |-> {}]
  /\ call = [fn |-> "none"]
  /\ ret = NoneVal

\* A request arrives and is queued for the event loop.
Receive(op) ==
  /\ Len(queue) < MaxPending
  /\ queue' = Append(queue, op)
  /\ UNCHANGED <<pc, cur, script, calls, inflight, waits, result_text,
                 imageSaved, learned, products, store_before, persisted, now,
                 resp>>
  /\ UNCHANGED storeVars

Tick ==
  /\ now < MaxClock
  /\ now' = now + 1
  /\ UNCHANGED <<queue, pc, cur, script, calls, inflight, waits, result_text,
                 imageSaved, learned, products, store_before, persisted, resp>>
  /\ UNCHANGED storeVars

\* Variant: a miss leaves a placeholder row for the barcode.
check_product_caching_miss(upc, db_ok) ==
  /\ pc = "idle"
  /\ queue # <<>>
  /\ Head(queue) = "lookup"
  /\ queue' = Tail(queue)
  /\ cur' = [op |-> "lookup", arg |-> upc]
  /\ store_before' = products
  /\ script' = <<>>
  /\ calls' = 0
  /\ waits' = <<>>
  /\ result_text' = <<>>
  /\ imageSaved' = FALSE
  /\ learned' = "none"
  /\ resp' = IF ~db_ok THEN Unhandled
             ELSE LET result == get_product_from_db(upc, products)
                  IN IF result # NoneVal
                     THEN [http |-> 200, status |-> "found", data |-> result,
                           source |-> "Local DB"]
                     ELSE [http |-> 200, status |-> "not_found",
                           message |-> "Item unknown. Please scan label."]
  /\ products' = IF db_ok /\ get_product_from_db(upc, products) = NoneVal
                  THEN InsertOrReplace(products,
                         products_row(insert_params(JStr(upc), "Unknown",
                                                    JDict(<<>>)), now))
                  ELSE products
  /\ UNCHANGED <<pc, inflight, persisted, now>>
  /\ UNCHANGED storeVars

\* GET /product/{upc}: server.py lines 116-129, the whole handler.
check_product(upc, db_ok) ==
  /\ pc = "idle"
  /\ queue # <<>>
  /\ Head(queue) = "lookup"
  /\ queue' = Tail(queue)
  /\ cur' = [op |-> "lookup", arg |-> upc]
  /\ store_before' = products
  /\ script' = <<>>
  /\ calls' = 0
  /\ waits' = <<>>
  /\ result_text' = <<>>
  /\ imageSaved' = FALSE
  /\ learned' = "none"
  /\ resp' = IF ~db_ok THEN Unhandled
             ELSE LET result == get_product_from_db(upc, products)
                  IN IF result # NoneVal
                     THEN [http |-> 200, status |-> "found", data |-> result,
                           source |-> "Local DB"]
                     ELSE [http |-> 200, status |-> "not_found",
                           message |-> "Item unknown. Please scan label."]
  /\ UNCHANGED <<pc, inflight, products, persisted, now>>
  /\ UNCHANGED storeVars

\* POST /analyze, server.py lines 139-162: the image is written to the
\* request's own folder, the prompt is loaded, and genai.upload_file is called.
\* makedirs, open and the prompt read are outside the try block of line 161.
analyze_begin(file, fs_ok, prompt, s) ==
  /\ pc = "idle"
  /\ queue # <<>>
  /\ Head(queue) = "analyze"
  /\ queue' = Tail(queue)
  /\ cur' = [op |-> "analyze", arg |-> file]
  /\ store_before' = products
  /\ script' = s
  /\ calls' = 0
  /\ waits' = <<>>
  /\ result_text' = <<>>
  /\ imageSaved' = fs_ok
  /\ learned' = "none"
  /\ IF fs_ok /\ prompt # "unreadable"
     THEN pc' = "upload" /\ resp' = NoResponse
     ELSE pc' = "idle" /\ resp' = Unhandled
  /\ UNCHANGED <<inflight, products, persisted, now>>
  /\ UNCHANGED storeVars

\* Variants of the except clause: one that calls again after any failure,
\* one that sleeps before it returns the error.
except_Exception_retrying(e, slept) ==
  [again |-> TRUE,
   waits |-> slept,
   resp  |-> [http |-> 200, status |-> "error", message |-> ErrorText(e)]]
except_Exception_sleeping(e, slept) ==
  [again |-> FALSE,
   waits |-> Append(slept, 5 * 2^Len(slept)),
   resp  |-> [http |-> 200, status |-> "error", message |-> ErrorText(e)]]

\* server.py lines 185-187: what the except clause does with an exception of
\* the try block, raised when the request has slept `slept` so far.  It
\* returns the error body; it neither sleeps nor calls again.
except_Exception(e, slept) ==
  [again |-> FALSE,
   waits |-> slept,
   resp  |-> [http |-> 200, status |-> "error", message |-> ErrorText(e)]]

\* An exception reaches the except clause.
Raise(e) ==
  LET h == except_Exception(e, waits)
  IN /\ waits' = h.waits
     /\ IF h.again
        THEN /\ pc' = "generate"
             /\ calls' = calls + 1
             /\ inflight' = (IF pc = "generate" THEN inflight - 1 ELSE inflight) + 1
             /\ resp' = resp
        ELSE /\ pc' = "idle"
             /\ calls' = calls
             /\ inflight' = IF pc = "generate" THEN inflight - 1 ELSE inflight
             /\ resp' = h.resp

\* genai.upload_file returns (line 162); on success generate_content is
\* called at once (line 165).
upload_return(outcome) ==
  /\ pc = "upload"
  /\ IF outcome = "ok"
     THEN /\ pc' = "generate"
          /\ calls' = calls + 1
          /\ inflight' = inflight + 1
          /\ UNCHANGED <<waits, resp>>
     ELSE Raise(outcome)
  /\ UNCHANGED <<queue, cur, script, result_text, imageSaved, learned,
                 products, store_before, persisted, now>>
  /\ UNCHANGED storeVars

\* Variant: the stripped text is returned as raw_text.
reply_outcome_stripped(text) ==
  LET clean_json    == clean_json_of(text)
      analysis_data == json_loads(clean_json)
  IN IF analysis_data = JSONDecodeError
     THEN [http |-> 200, status |-> "partial_success", raw_text |-> clean_json]
     ELSE [http |-> 200, status |-> "success", data |-> analysis_data,
           source |-> "Gemini API"]

\* server.py lines 166-183: what a reply of the model becomes.
reply_outcome(text) ==
  LET clean_json    == clean_json_of(text)
      analysis_data == json_loads(clean_json)
  IN IF analysis_data = JSONDecodeError
     THEN [http |-> 200, status |-> "partial_success", raw_text |-> text]
     ELSE [http |-> 200, status |-> "success", data |-> analysis_data,
           source |-> "Gemini API"]

\* generate_content returns (line 165) and the handler runs to its return.
generate_return(text, db_ok) ==
  /\ pc = "generate"
  /\ LET answer == AnswerTo(calls) IN
     IF answer \in {"rate_limit", "other_error"}
     THEN /\ Raise(answer)
          /\ UNCHANGED <<result_text, learned, products, persisted>>
     ELSE /\ text \in RepliesOf(answer)
          /\ result_text' = text
          /\ LET out   == reply_outcome(text)
                 saved == IF out.status = "success"
                          THEN save_product_to_db(out.data, now, db_ok)
                          ELSE [did |-> "none"]
             IN /\ learned' = saved.did
                \* an exception that left the save would reach line 185
                /\ resp' = IF saved.did = "raised"
                           THEN except_Exception("other_error", waits).resp
                           ELSE out
                /\ IF saved.did = "saved"
                   THEN /\ products' = InsertOrReplace(products, saved.row)
                        /\ persisted' =
                             [persisted EXCEPT ![saved.row.upc[2]] = {saved.row}]
                   ELSE UNCHANGED <<products, persisted>>
          /\ pc' = "idle"
          /\ inflight' = inflight - 1
          /\ UNCHANGED <<calls, waits>>
  /\ UNCHANGED <<queue, cur, script, imageSaved, store_before, now>>
  /\ UNCHANGED storeVars

Next ==
  \/ \E op \in Operations : Receive(op)
  \/ Tick
  \/ \E upc \in Barcodes, db_ok \in BOOLEAN : check_product(upc, db_ok)
  \/ \E file \in Uploads, fs_ok \in BOOLEAN,
        prompt \in {"file", "missing", "unreadable"}, s \in Scripts :
        analyze_begin(file, fs_ok, prompt, s)
  \/ \E outcome \in {"ok", "rate_limit", "other_error"} : upload_return(outcome)
  \/ \E text \in Replies, db_ok \in BOOLEAN : generate_return(text, db_ok)

Spec == Init /\ [][Next]_vars

\* ------------------------------------------- the storage functions, called
\* directly (as tests/test_nutrition.py lines 77-80 call those of database.py)
serverVars == <<queue, pc, cur, script, calls, inflight, waits, result_text,
                imageSaved, learned, store_before, resp>>

\* server.save_product_to_db(data)
server_save(data, db_ok) ==
  /\ ret' = NoneVal
  /\ LET saved == save_product_to_db(data, now, db_ok)
     IN /\ call' = [fn |-> "server.save", data |-> data, did |-> saved.did,
                    over |-> IF saved.did = "saved"
                             THEN SelectByUpc(products, saved.row.upc[2]) ELSE {}]
        /\ IF saved.did = "saved"
           THEN /\ products' = InsertOrReplace(products, saved.row)
                /\ persisted' =
                     [persisted EXCEPT ![saved.row.upc[2]] = {saved.row}]
           ELSE UNCHANGED <<products, persisted>>
  /\ UNCHANGED <<now, db_products, db_persisted>>
  /\ UNCHANGED serverVars

\* server.get_product_from_db(upc)
server_get(upc) ==
  /\ call' = [fn |-> "server.get", upc |-> upc]
  /\ ret' = get_product_from_db(upc, products)
  /\ UNCHANGED <<products, persisted, now, db_products, db_persisted>>
  /\ UNCHANGED serverVars

\* database.save_product_to_db(data)
database_save(data, db_ok) ==
  /\ ret' = NoneVal
  /\ LET saved == database_save_product_to_db(data, db_ok)
     IN /\ call' = [fn |-> "database.save", data |-> data, did |-> saved.did,
                    over |-> IF saved.did = "saved"
                             THEN SelectByUpc(db_products, saved.row.upc[2]) ELSE {}]
        /\ IF saved.did = "saved"
           THEN /\ db_products' = InsertOrReplace(db_products, saved.row)
                /\ db_persisted' =
                     [db_persisted EXCEPT ![saved.row.upc[2]] = {saved.row}]
           ELSE UNCHANGED <<db_products, db_persisted>>
  /\ UNCHANGED <<products, persisted, now>>
  /\ UNCHANGED serverVars

\* database.get_product_from_db(upc)
database_get(upc) ==
  /\ call' = [fn |-> "database.get", upc |-> upc]
  /\ ret' = database_get_product_from_db(upc, db_products)
  /\ UNCHANGED <<products, persisted, now, db_products, db_persisted>>
  /\ UNCHANGED serverVars

StoreTick ==
  /\ now < MaxClock
  /\ now' = now + 1
  /\ UNCHANGED <<products, persisted, db_products, db_persisted, call, ret>>
  /\ UNCHANGED serverVars

Documents == {JsonDoc[d] : d \in DOMAIN JsonDoc}

NextStore ==
  \/ \E data \in Documents, db_ok \in BOOLEAN : server_save(data, db_ok)
  \/ \E upc \in Barcodes \cup {""} : server_get(upc)
  \/ \E data \in Documents, db_ok \in BOOLEAN : database_save(data, db_ok)
  \/ \E upc \in Barcodes \cup {""} : database_get(upc)
  \/ StoreTick

SpecStore == Init /\ [][NextStore]_vars

TypeOK ==
  /\ pc \in {"idle", "upload", "generate"}
  /\ calls \in Nat
  /\ inflight \in Nat

\* ================================================================ claims
\* An Analyze request has returned (or its exception has left the handler).
AnalyzeDone == pc = "idle" /\ cur.op = "analyze"
\* A Lookup request has returned.
LookupDone  == pc = "idle" /\ cur.op = "lookup"

RateLimited == "rate_limit"

\* C1: an Analyze request whose first two AI calls are rate-limited and whose
\* third is answered with a reply that parses as JSON makes exactly 3 AI
\* calls, sleeps exactly twice (5 s, then 10 s) and returns status "success".
\* (Stated for the requests that got as far as their first AI call.)
C1_RetryThenSuccess ==
  (AnalyzeDone /\ calls >= 1
     /\ script = <<RateLimited, RateLimited, "json_reply">>)
  => /\ calls = 3
     /\ waits = <<5, 10>>
     /\ resp.http = 200
     /\ resp.status = "success"

\* C2: an Analyze request whose every AI call is rate-limited makes exactly 3
\* AI calls, sleeps exactly twice and returns status "error" with the message
\* of the rate-limit failure.
C2_RetryExhausted ==
  (AnalyzeDone /\ calls >= 1
     /\ script = <<RateLimited, RateLimited, RateLimited>>)
  => /\ calls = 3
     /\ Len(waits) = 2
     /\ resp.http = 200
     /\ resp.status = "error"
     /\ resp.message = ErrorText(RateLimited)

\* C3: whatever the provider answers, one Analyze request makes at most 3 AI
\* calls and never has two of them in flight: a call is started only when no
\* call of the request is in flight, and after the first only when the
\* previous one has failed.
C3_AtMostThreeSequentialCalls ==
  /\ [](calls <= 3 /\ inflight <= 1)
  /\ [][calls' > calls =>
          /\ calls' = calls + 1
          /\ inflight' = 1
          /\ calls >= 1 =>
               /\ pc = "generate" /\ inflight = 1
               /\ AnswerTo(calls) \in {"rate_limit", "other_error"}]_vars

\* C3 witness: a request made one AI call, the call was rate-limited, and the
\* request returned without a second call.
C3_Witness ==
  /\ AnalyzeDone
  /\ calls = 1 /\ inflight = 0
  /\ script[1] = RateLimited
  /\ Len(script) = 3

\* C4: once an AI call of a request has failed with something other than the
\* rate-limit error, the request makes no further AI call and no further
\* sleep, and it returns status "error".
C4_OtherFailureAborts ==
  /\ \A k \in 1..(calls - 1) : AnswerTo(k) # "other_error"
  /\ (pc # "generate" /\ calls >= 1 /\ AnswerTo(calls) = "other_error")
     => /\ pc = "idle"
        /\ Len(waits) <= calls - 1
        /\ resp.http = 200
        /\ resp.status = "error"

\* C4 witness: the first AI call failed with another error and the request
\* returned "error".
C4_Witness ==
  /\ AnalyzeDone
  /\ calls = 1
  /\ AnswerTo(1) = "other_error"
  /\ resp.status = "error"
  /\ waits = <<>>

\* C5 as claimed: every sleep follows a rate-limited call and lasts 5 * 2^k
\* seconds after attempt k, and when the request has returned the number of
\* sleeps is the number of AI calls minus one.  (The last part is stated for
\* the requests that returned a body, leaving aside those that an exception
\* outside the try block ended.)
C5_WaitsAreCallsMinusOne ==
  /\ \A i \in 1..Len(waits) :
       /\ waits[i] = 5 * 2^(i - 1)
       /\ i <= calls
       /\ AnswerTo(i) = RateLimited
  /\ (AnalyzeDone /\ resp.http = 200) => Len(waits) = calls - 1

\* C5 amended: as above, but when the request has returned the number of
\* sleeps is the number of AI calls minus one only if it made an AI call; a
\* request that made none has not slept.
C5_WaitsOnlyBetweenCalls ==
  /\ \A i \in 1..Len(waits) :
       /\ waits[i] = 5 * 2^(i - 1)
       /\ i <= calls
       /\ AnswerTo(i) = RateLimited
  /\ AnalyzeDone =>
       Len(waits) = IF calls >= 1 THEN calls - 1 ELSE 0

\* C5 witness: the request's last AI call was rate-limited and the request
\* returned without sleeping after it.
C5_Witness ==
  /\ AnalyzeDone
  /\ calls = 1
  /\ AnswerTo(calls) = RateLimited
  /\ Len(waits) = calls - 1
  /\ resp.http = 200

\* The request got a reply from the model.
Replied == calls >= 1 /\ AnswerTo(calls) \in {"json_reply", "text_reply"}

\* C6: a Lookup of barcode b that the store answers returns "found" with data
\* equal, column for column, to the row most recently persisted for b, and
\* "not_found" when no row was ever persisted for b.
C6_LookupReturnsLastPersisted ==
  (LookupDone /\ resp.http = 200) =>
    IF persisted[cur.arg] = {}
    THEN resp.status = "not_found"
    ELSE /\ resp.status = "found"
         /\ \A row \in persisted[cur.arg] :
              /\ Len(resp.data[2]) = Cardinality(DOMAIN row)
              /\ \A c \in DOMAIN row :
                   HasKey(resp.data, c) /\ DictGet(resp.data, c, NoneVal) = row[c]

\* C6 witness: a Lookup found the row of the second analysis of barcode 111.
C6_Witness ==
  /\ LookupDone
  /\ cur.arg = "111"
  /\ resp.http = 200
  /\ resp.status = "found"
  /\ DictGet(resp.data, "calories", JNull) = JNum(200)
  /\ DictGet(resp.data, "brand_name", JNull) = JStr("Unknown")
  /\ DictGet(resp.data, "last_updated", JNull) = JNum(1)

\* A step that repeats the last save: same function, same data, both committed.
SameSaveAgain ==
  /\ call.fn \in {"server.save", "database.save"}
  /\ call.did = "saved"
  /\ call'.fn = call.fn
  /\ call'.data = call.data
  /\ call'.did = "saved"

\* C7 as claimed: each table holds for a barcode exactly the row of the last
\* committed write (one row, every column from that write), and persisting
\* the same record again leaves the store as it was.
C7_UpsertIdempotentLastWriteWins ==
  /\ [](\A b \in Barcodes :
          /\ SelectByUpc(products, b) = persisted[b]
          /\ SelectByUpc(db_products, b) = db_persisted[b])
  /\ [][SameSaveAgain =>
          products' = products /\ db_products' = db_products]_vars

WithoutStamp(table) == {[r EXCEPT !.last_updated = JNull] : r \in table}

\* C7 amended: as above, except that persisting the same record again through
\* server.py leaves the store as it was in every column but last_updated,
\* which takes the time of the last write.
C7_UpsertLastWriteWins ==
  /\ [](\A b \in Barcodes :
          /\ SelectByUpc(products, b) = persisted[b]
          /\ SelectByUpc(db_products, b) = db_persisted[b]
          /\ Cardinality(SelectByUpc(products, b)) <= 1
          /\ Cardinality(SelectByUpc(db_products, b)) <= 1)
  /\ [][SameSaveAgain =>
          /\ WithoutStamp(products') = WithoutStamp(products)
          /\ db_products' = db_products]_vars

\* C7 witness: a save through database.py replaced a row of the same barcode
\* that had other nutrient values; the table holds the new row only.
C7_Witness ==
  /\ call.fn = "database.save"
  /\ call.did = "saved"
  /\ call.data = JsonDoc.docNestedB
  /\ \E old \in call.over : old.calories = JNum(100) /\ old.fat_g = JNum(5)
  /\ \E r \in db_products : r.upc = JStr("111")
  /\ \A r \in db_products :
       r.upc = JStr("111") => r.calories = JNum(200) /\ r.fat_g = JNull

\* The first "variables" entry of a parsed reply has no barcode, a null
\* barcode, or the barcode "null".
FirstEntryWithoutBarcode(data) ==
  /\ IsDict(data)
  /\ HasKey(data, "variables")
  /\ LET vars_block == DictGet(data, "variables", JNull) IN
       /\ IsDict(vars_block)
       /\ Len(vars_block[2]) >= 1
       /\ IsDict(vars_block[2][1][2])
       /\ DictGet(vars_block[2][1][2], "upc", JNull) \in {JNull, JStr("null")}

\* C8: when the parsed reply's first "variables" entry has no usable barcode,
\* Analyze leaves the products table as it was and returns "success" with
\* the parsed data.
C8_NoBarcodeNoRecord ==
  (AnalyzeDone /\ Replied
     /\ FirstEntryWithoutBarcode(json_loads(clean_json_of(result_text))))
  => /\ products = store_before
     /\ resp.http = 200
     /\ resp.status = "success"
     /\ resp.data = json_loads(clean_json_of(result_text))

\* C8 witness: a reply whose barcode is the string "null" was analysed while a
\* row was stored; "success" was returned.
C8_Witness ==
  /\ AnalyzeDone /\ Replied
  /\ result_text = Fenced("docStrNull")
  /\ resp.status = "success"
  /\ products # {}
  /\ products = store_before

\* C9: when the reply is not valid JSON after the fence markers are stripped,
\* Analyze returns "partial_success" with raw_text equal to the reply as the
\* model gave it.
C9_PartialSuccessKeepsRawText ==
  (AnalyzeDone /\ Replied
     /\ json_loads(clean_json_of(result_text)) = JSONDecodeError)
  => /\ resp.http = 200
     /\ resp.status = "partial_success"
     /\ resp.raw_text = result_text

\* C9 witness: a fenced reply that is not JSON came back with its fences.
C9_Witness ==
  /\ AnalyzeDone /\ Replied
  /\ result_text = Fenced("prose")
  /\ clean_json_of(result_text) = <<"prose">>
  /\ resp.status = "partial_success"
  /\ resp.raw_text = Fenced("prose")

\* C10: an upload that is not an image is rejected before any AI call: the
\* request makes no AI call, writes neither the image file nor the products
\* table, and is answered with status 400.  (Stated for the requests that no
\* exception outside the try block ended.)
C10_InvalidImageRejected ==
  (AnalyzeDone /\ cur.arg = "not_image" /\ resp.http # 500)
  => /\ calls = 0
     /\ ~imageSaved
     /\ products = store_before
     /\ resp.http = 400

\* The parsed reply of the request that Replied.
ParsedReply == json_loads(clean_json_of(result_text))

\* C11: when the reply parses as JSON and the save fails (the store refuses
\* the write, or anything else raises inside save_product_to_db), no exception
\* leaves the save, the table is as it was, and Analyze returns "success" with
\* the parsed data.
C11_SaveFailureSwallowed ==
  /\ learned # "raised"
  /\ (AnalyzeDone /\ Replied /\ ParsedReply # JSONDecodeError
        /\ learned \notin {"saved", "skipped"})
     => /\ learned = "failed"
        /\ products = store_before
        /\ resp.http = 200
        /\ resp.status = "success"
        /\ resp.data = ParsedReply

\* C11 witness: the reply carried barcode 111, the write failed, and the
\* request returned "success".
C11_Witness ==
  /\ AnalyzeDone /\ Replied
  /\ result_text = Bare("docFlatA")
  /\ learned = "failed"
  /\ resp.status = "success"
  /\ persisted["111"] = {}

\* C12: an Analyze request of a valid image answers HTTP 200 whatever fails
\* on the way, and when it did not get a reply from the provider (the image
\* destination could not be written, the prompt could not be read, the AI call
\* failed) its body has status "error" and a message.
C12_FailuresReportedAsErrorJson ==
  (AnalyzeDone /\ cur.arg = "image")
  => /\ resp.http = 200
     /\ ~Replied => /\ resp.status = "error"
                    /\ "message" \in DOMAIN resp

\* C13: an Analyze request whose reply is a text between a "```json" line and
\* a "```" line ends as the same text without the markers would have ended
\* with the same store behaviour: the same status, the same data, the same
\* outcome of the save, and the same table (the row's last_updated aside,
\* which is the time of the write).
C13_FenceMakesNoDifference ==
  \A run \in TextRuns :
    (AnalyzeDone /\ Replied /\ result_text = Fenced(run)) =>
      LET bare == reply_outcome(Bare(run)) IN
      /\ resp.status = bare.status
      /\ bare.status # "success" => products = store_before
      /\ bare.status = "success" =>
           LET s == save_product_to_db(bare.data, now, learned # "failed") IN
           /\ resp.data = bare.data
           /\ learned = s.did
           /\ WithoutStamp(products) =
                WithoutStamp(IF s.did = "saved"
                             THEN InsertOrReplace(store_before, s.row)
                             ELSE store_before)

\* C13 witness: a fenced reply was parsed and its record for 111 persisted.
C13_Witness ==
  /\ AnalyzeDone /\ Replied
  /\ result_text = Fenced("docFlatA")
  /\ resp.status = "success"
  /\ learned = "saved"
  /\ persisted["111"] # {}

\* A request that has been received and is waiting to be handled can start.
HandlerCanStart ==
  \/ ENABLED (\E upc \in Barcodes, db_ok \in BOOLEAN : check_product(upc, db_ok))
  \/ ENABLED (\E file \in Uploads, fs_ok \in BOOLEAN,
                 prompt \in {"file", "missing", "unreadable"}, s \in Scripts :
                 analyze_begin(file, fs_ok, prompt, s))

\* C14: while an Analyze request is inside its upload or its AI call, a
\* request that has been received meanwhile can be handled.
C14_WaitingDoesNotBlockOthers ==
  (pc \in {"upload", "generate"} /\ queue # <<>>) => HandlerCanStart

\* C15: the products table changes during an Analyze request only in the step
\* that returns "success" for a reply that parsed as JSON; a request that
\* returned "partial_success" or "error" leaves the table as it was when the
\* request started; and every row of the table is, column for column, the row
\* of one committed INSERT (no row is ever partly written).
C15_WriteOnlyAfterParsedReply ==
  /\ (cur.op = "analyze" /\ products # store_before)
     => /\ AnalyzeDone /\ Replied
        /\ ParsedReply # JSONDecodeError
        /\ resp.http = 200 /\ resp.status = "success"
  /\ (AnalyzeDone /\ resp.http = 200
        /\ resp.status \in {"partial_success", "error"})
     => products = store_before
  /\ \A r \in products :
       /\ DOMAIN r = {ProductsColumns[i] : i \in 1..Len(ProductsColumns)}
       /\ r \in persisted[r.upc[2]]

\* C15 witness: a record is stored, and a later Analyze request whose reply
\* did not parse returned "partial_success" without touching the table.
C15_Witness ==
  /\ AnalyzeDone /\ Replied
  /\ resp.status = "partial_success"
  /\ products # {}
  /\ products = store_before

\* C16: in every step, the record of a barcode b changes only in the save of
\* one Analyze request whose first entry carries b, and then the record of b
\* is, column for column, the row built from that request's reply alone; so
\* a stored record is never a mix of two requests, and a write for one
\* barcode neither changes nor removes the record of another.
C16_WritesAreWholeAndPerBarcode ==
  /\ [](\A b \in Barcodes : Cardinality(SelectByUpc(products, b)) <= 1)
  /\ [][\A b \in Barcodes :
          SelectByUpc(products', b) # SelectByUpc(products, b) =>
            /\ pc = "generate" /\ pc' = "idle"
            /\ LET s == save_product_to_db(
                          json_loads(clean_json_of(result_text')), now, TRUE)
               IN /\ s.did = "saved"
                  /\ s.row.upc = JStr(b)
                  /\ SelectByUpc(products', b) = {s.row}]_vars

\* C16 witness: two requests have written, one for 111 and one for 222, and
\* both records are stored.
C16_Witness ==
  /\ AnalyzeDone /\ learned = "saved"
  /\ SelectByUpc(products, "111") # {}
  /\ SelectByUpc(products, "222") # {}

\* The entries of the "variables" object of a parsed reply, in their order.
VariablesOf(data) ==
  IF IsDict(data) /\ IsDict(DictGet(data, "variables", JNull))
  THEN DictGet(data, "variables", JNull)[2] ELSE <<>>

\* C17: an Analyze request whose reply has a "variables" object stores at most
\* one row; a row it stores has the barcode of the first entry and is built
\* from the first entry alone (what a reply with that entry only would have
\* stored); and when the first entry has no usable barcode the table is left
\* as it was, whatever the later entries carry.
C17_OnlyFirstEntryConsulted ==
  (AnalyzeDone /\ Replied /\ VariablesOf(ParsedReply) # <<>>) =>
    LET first == VariablesOf(ParsedReply)[1]
        alone == save_product_to_db(Analysis(first[1], first[2]), now, TRUE)
    IN /\ Cardinality(products \ store_before) <= 1
       /\ FirstEntryWithoutBarcode(ParsedReply) => products = store_before
       /\ products # store_before =>
            /\ alone.did = "saved"
            /\ WithoutStamp(products) =
                 WithoutStamp(InsertOrReplace(store_before, alone.row))

\* C17 witness: the reply had two entries, the first without a barcode and the
\* second with barcode 222, and nothing was stored.
C17_Witness ==
  /\ AnalyzeDone /\ Replied
  /\ result_text = Bare("docTwoLater")
  /\ learned = "skipped"
  /\ products = {}

\* docFlatA and docNestedA describe one product, in the flat and in the
\* nested shape: its name, brand, calories, fat and fiber; no protein, no
\* sodium.  This is the row the claim has stored for both.
IsOatBarRow(r) ==
  /\ r.upc = JStr("111")
  /\ r.item_name = JStr("Oat Bar")
  /\ r.brand_name = JStr("Acme")
  /\ r.calories = JNum(100)
  /\ r.fat_g = JNum(5)
  /\ r.fiber_g = JNum(3)
  /\ r.protein_g = JNum(0)
  /\ r.sodium_mg = JNum(0)

\* C18: a save of a product in the flat shape and a save of the same product
\* in the nested shape store the same record, with the fields that are
\* present under their columns and every absent numeric field as 0; and a
\* record whose item has no brand is stored with brand "Unknown".  For both
\* modules' save_product_to_db, when the store takes the write.
C18_SameRecordForBothShapes ==
  /\ (call.fn = "server.save" /\ call.did # "failed"
        /\ call.data \in {JsonDoc.docFlatA, JsonDoc.docNestedA})
     => /\ call.did = "saved"
        /\ \A r \in SelectByUpc(products, "111") : IsOatBarRow(r)
  /\ (call.fn = "database.save" /\ call.did # "failed"
        /\ call.data \in {JsonDoc.docFlatA, JsonDoc.docNestedA})
     => /\ call.did = "saved"
        /\ \A r \in SelectByUpc(db_products, "111") : IsOatBarRow(r)
  /\ (call.fn = "server.save" /\ call.did = "saved"
        /\ call.data = JsonDoc.docFlatB)
     => \A r \in SelectByUpc(products, "111") : r.brand_name = JStr("Unknown")
  /\ (call.fn = "database.save" /\ call.did = "saved"
        /\ call.data = JsonDoc.docFlatB)
     => \A r \in SelectByUpc(db_products, "111") : r.brand_name = JStr("Unknown")

\* C19: no step removes the record of a barcode (a step may replace it), and
\* a Lookup of a barcode for which a record was persisted, when the store
\* answers, returns "found".
C19_RecordsNeverDeleted ==
  /\ [][\A b \in Barcodes :
          SelectByUpc(products, b) # {} => SelectByUpc(products', b) # {}]_vars
  /\ []((LookupDone /\ resp.http = 200 /\ persisted[cur.arg] # {})
          => resp.status = "found")

\* C19 witness: a record for 111 was persisted, a record for 222 was written
\* after it, and a Lookup of 111 after both returned "found".
C19_Witness ==
  /\ LookupDone /\ cur.arg = "111"
  /\ resp.http = 200 /\ resp.status = "found"
  /\ \E r \in SelectByUpc(products, "111"), q \in SelectByUpc(products, "222") :
       r.last_updated[2] < q.last_updated[2]

\* C20: a Lookup request that has returned made no AI call, uploaded nothing,
\* wrote no image, and left the products table as it was when it started.
C20_LookupIsPureRead ==
  LookupDone =>
    /\ calls = 0
    /\ inflight = 0
    /\ ~imageSaved
    /\ learned = "none"
    /\ products = store_before

\* C20 witness: a Lookup of a barcode that is not stored returned "not_found"
\* while another barcode's record is stored.
C20_Witness ==
  /\ LookupDone /\ cur.arg = "222"
  /\ resp.http = 200 /\ resp.status = "not_found"
  /\ SelectByUpc(products, "111") # {}

\* Every call of the provider returns, with a reply or with a failure: the
\* handler that waits in genai.upload_file or in generate_content (where it
\* also runs the save) goes on.
SpecFair ==
  /\ Spec
  /\ WF_vars(\E outcome \in {"ok", "rate_limit", "other_error"} :
               upload_return(outcome))
  /\ WF_vars(\E text \in Replies, db_ok \in BOOLEAN : generate_return(text, db_ok))

\* An Analyze request that has started returns.
AnalyzeTerminates == (pc # "idle") ~> AnalyzeDone

\* The response is one of the four outcomes of an Analyze request: a body
\* with status "success", "partial_success" or "error", or the rejection of
\* an invalid image.
OneOfFourOutcomes ==
  \/ resp.http = 400
  \/ /\ resp.http = 200
     /\ resp.status \in {"success", "partial_success", "error"}

\* C21: when every call of the provider and of the store returns, an Analyze
\* request that has started returns, and it returns with one of the four
\* outcomes.
C21_TerminatesWithOneOutcome ==
  /\ AnalyzeTerminates
  /\ [](AnalyzeDone => OneOfFourOutcomes)

====
